---- MODULE Spec2Model ----
(***************************************************************************)
(* A model of the websrv crate (src/src/lib.rs) and of the route table and *)
(* handlers of its binary (src/src/bin/main.rs).                           *)
(*                                                                         *)
(* Text is modelled as a sequence of one-character strings, so that        *)
(* str::lines, split_whitespace, split(": ") and format! are computed      *)
(* rather than assumed.  SP, CR, LF, TAB, NUL and DQ name the characters   *)
(* ' ', '\r', '\n', '\t', '\0' and '"'.                                    *)
(***************************************************************************)
EXTENDS Integers, Sequences, FiniteSets, TLC

\* ------------------------------------------------------------------ bounds

\* Largest pool size tried by ThreadPool::new (size 0 is tried as well).
MaxWorkers == 2

\* Number of connections the accept loop hands to ThreadPool::execute.
MaxJobs == 2

\* Capacity of the read buffer of handle_connection.  The source uses 4096;
\* the model uses a capacity just large enough for its longest request, the
\* rest of the buffer being NUL padding exactly as in the source.
BufCap == 32

\* ------------------------------------------------------------- characters

SP == " "
CR == "\r"
LF == "\n"
TAB == "\t"
NUL == "NUL"
DQ == "\""

CRLF == <<CR, LF>>

\* char::is_whitespace restricted to the characters of the model.
IsWhitespace(c) == c \in {SP, CR, LF, TAB}

\* ------------------------------------------------------------------ Method

Methods == {"GET", "POST", "PUT", "PATCH", "DELETE"}

\* The absent Option value.
None == [tag |-> "None"]

Some(v) == [tag |-> "Some", val |-> v]

\* Method::from_str: Option<&str> -> Option<Method>.
MethodFromStr(tok) ==
    IF tok = None THEN None
    ELSE IF tok.val = <<"G", "E", "T">> THEN Some("GET")
    ELSE IF tok.val = <<"P", "O", "S", "T">> THEN Some("POST")
    ELSE IF tok.val = <<"P", "U", "T">> THEN Some("PUT")
    ELSE IF tok.val = <<"P", "A", "T", "C", "H">> THEN Some("PATCH")
    ELSE IF tok.val = <<"D", "E", "L", "E", "T", "E">> THEN Some("DELETE")
    ELSE None

\* --------------------------------------------------------------- StatusCode

StatusCodes == {"Ok", "Created", "Accepted", "NoContent", "BadRequest",
                "Unauthorized", "Forbidden", "NotFound"}

\* StatusCode::text.
StatusText(code) ==
    CASE code = "Ok" -> <<"2", "0", "0", SP, "O", "K">>
      [] code = "Created" -> <<"2", "0", "1", SP, "C", "r", "e", "a", "t", "e", "d">>
      [] code = "Accepted" -> <<"2", "0", "2", SP, "A", "c", "c", "e", "p", "t", "e", "d">>
      [] code = "NoContent" -> <<"2", "0", "4", SP, "N", "o", SP, "C", "o", "n", "t", "e", "n", "t">>
      [] code = "BadRequest" -> <<"4", "0", "0", SP, "B", "a", "d", SP, "R", "e", "q", "u", "e", "s", "t">>
      [] code = "Unauthorized" -> <<"4", "0", "1", SP, "U", "n", "a", "u", "t", "h", "o", "r", "i", "z", "e", "d">>
      [] code = "Forbidden" -> <<"4", "0", "3", SP, "F", "o", "r", "b", "i", "d", "d", "e", "n">>
      [] code = "NotFound" -> <<"4", "0", "4", SP, "N", "o", "t", SP, "F", "o", "u", "n", "d">>

\* The discriminants of enum StatusCode.
StatusNumber(code) ==
    CASE code = "Ok" -> 200
      [] code = "Created" -> 201
      [] code = "Accepted" -> 202
      [] code = "NoContent" -> 204
      [] code = "BadRequest" -> 400
      [] code = "Unauthorized" -> 401
      [] code = "Forbidden" -> 403
      [] code = "NotFound" -> 404

\* ------------------------------------------------------------ std text ops

\* The tail of str::lines' per-line work: a line that ended in '\n' also loses
\* one '\r' before it.
StripCR(line) ==
    IF Len(line) > 0 /\ line[Len(line)] = CR
    THEN SubSeq(line, 1, Len(line) - 1)
    ELSE line

\* The sequence of the values f(1), ..., f(n).
SeqOf(f(_), n) == <<>> \o [k \in 1..n |-> f(k)]

\* The k-th smallest member of a finite set of numbers.
Nth(S, k) == CHOOSE i \in S : Cardinality({x \in S : x <= i}) = k

\* str::lines: split after every '\n'; the terminator is dropped; nothing is
\* yielded after a final '\n'; the empty string has no lines.
Lines(s) ==
    LET ends == {i \in 1..Len(s) : s[i] = LF}
        terminated == Cardinality(ends)
        count == IF Len(s) > 0 /\ s[Len(s)] # LF THEN terminated + 1 ELSE terminated
        start(k) == IF k = 1 THEN 1 ELSE Nth(ends, k - 1) + 1
        line(k) == IF k <= terminated
                   THEN StripCR(SubSeq(s, start(k), Nth(ends, k) - 1))
                   ELSE SubSeq(s, start(k), Len(s))
    IN SeqOf(line, count)

\* str::split_whitespace: the maximal non-empty runs of non-whitespace.
SplitWhitespace(s) ==
    LET starts == {i \in 1..Len(s) :
                      ~IsWhitespace(s[i]) /\ (i = 1 \/ IsWhitespace(s[i - 1]))}
        ends == {i \in 1..Len(s) :
                    ~IsWhitespace(s[i]) /\ (i = Len(s) \/ IsWhitespace(s[i + 1]))}
        token(k) == SubSeq(s, Nth(starts, k), Nth(ends, k))
    IN SeqOf(token, Cardinality(starts))

\* str::split(": "): the pieces between the occurrences of the two-character
\* pattern (which cannot overlap each other); always at least one piece.
SplitColonSpace(s) ==
    LET seps == {i \in 1..(Len(s) - 1) : s[i] = ":" /\ s[i + 1] = SP}
        count == Cardinality(seps) + 1
        start(k) == IF k = 1 THEN 1 ELSE Nth(seps, k - 1) + 2
        piece(k) == SubSeq(s, start(k), IF k < count THEN Nth(seps, k) - 1 ELSE Len(s))
    IN SeqOf(piece, count)

\* Iterator::next on a sequence seen as an iterator at position i.
NextItem(items, i) == IF i <= Len(items) THEN Some(items[i]) ELSE None

\* usize::to_string.
RECURSIVE ToDecimal(_)
ToDecimal(n) ==
    LET digit == <<"0", "1", "2", "3", "4", "5", "6", "7", "8", "9">>[(n % 10) + 1]
    IN IF n < 10 THEN <<digit>> ELSE Append(ToDecimal(n \div 10), digit)

\* ----------------------------------------------------------------- Request

\* The outcome of a call that unwinds instead of returning.
Panic == [tag |-> "Panic"]

\* Header::new.
HeaderNew(key, val) == [key |-> key, value |-> val]

\* The loop of Request::from_str over the lines after the request line.  The
\* result is Panic (kv.next().unwrap() on a line without ": ") or the headers
\* and the body collected.
RECURSIVE ParseLines(_, _, _, _, _)
ParseLines(lines, i, parsing_headers, headers, body) ==
    IF i > Len(lines) THEN [tag |-> "Parsed", headers |-> headers, body |-> body]
    ELSE IF lines[i] = <<>>
         THEN ParseLines(lines, i + 1, FALSE, headers, body)
    ELSE IF parsing_headers
         THEN LET kv == SplitColonSpace(lines[i])
              IN IF NextItem(kv, 2) = None THEN Panic
                 ELSE ParseLines(lines, i + 1, parsing_headers,
                                 Append(headers, HeaderNew(kv[1], kv[2])), body)
    ELSE ParseLines(lines, i + 1, parsing_headers, headers, body \o lines[i])

\* Request::from_str: Panic, None or Some(Request).
FromStr(body) ==
    LET lines == Lines(body)
    IN IF NextItem(lines, 1) = None THEN Panic
       ELSE LET firstline == SplitWhitespace(lines[1])
                method == MethodFromStr(NextItem(firstline, 1))
            IN IF method = None THEN None
               ELSE IF NextItem(firstline, 2) = None THEN Panic
               ELSE IF NextItem(firstline, 3) = None THEN Panic
               ELSE LET rest == ParseLines(lines, 2, TRUE, <<>>, <<>>)
                    IN IF rest = Panic THEN Panic
                       ELSE Some([http_ver |-> firstline[3],
                                  method |-> method.val,
                                  uri |-> firstline[2],
                                  headers |-> rest.headers,
                                  body |-> rest.body])

\* ------------------------------------------------------ the embedding binary

\* The contents a template file may have when fs::read_to_string succeeds.
FileContents == {<<>>, <<"h", "i">>}

\* fs::read_to_string(...).unwrap(): the content, or a panic when the file
\* cannot be read.  The file system is outside the program, so every call may
\* see any of the outcomes.
ReadTemplate == {Panic} \cup {Some(c) : c \in FileContents}

\* What a handler hands back: (StatusCode, String).
Returned(code, text) == [tag |-> "Returned", status |-> code, body |-> text]

\* Method's derived Serialize: the variant's name.
MethodName(m) ==
    CASE m = "GET" -> <<"G", "E", "T">>
      [] m = "POST" -> <<"P", "O", "S", "T">>
      [] m = "PUT" -> <<"P", "U", "T">>
      [] m = "PATCH" -> <<"P", "A", "T", "C", "H">>
      [] m = "DELETE" -> <<"D", "E", "L", "E", "T", "E">>

\* main.rs hello_world.
hello_world(request) ==
    {IF r = Panic THEN Panic ELSE Returned("Ok", r.val) : r \in ReadTemplate}

\* main.rs hello_rust: the json! object rendered by to_string, keys in
\* serde_json's map order.
hello_rust(request) ==
    {Returned("Created",
        <<"{", DQ, "h", "t", "t", "p", "_", "v", "e", "r", DQ, ":", DQ>>
        \o request.http_ver
        \o <<DQ, ",", DQ, "m", "e", "s", "s", "a", "g", "e", DQ, ":", DQ, "H",
             "e", "l", "l", "o", SP, "f", "r", "o", "m", SP, "r", "u", "s",
             "t", "!", DQ, ",", DQ, "m", "e", "t", "h", "o", "d", DQ, ":", DQ>>
        \o MethodName(request.method)
        \o <<DQ, ",", DQ, "u", "r", "i", DQ, ":", DQ>>
        \o request.uri
        \o <<DQ, "}">>)}

\* main.rs forbidden.
forbidden(request) ==
    {IF r = Panic THEN Panic ELSE Returned("Forbidden", r.val) : r \in ReadTemplate}

\* (route.func)(&request): the call through the function pointer.
CallFunc(func, request) ==
    CASE func = "hello_world" -> hello_world(request)
      [] func = "hello_rust" -> hello_rust(request)
      [] func = "forbidden" -> forbidden(request)

\* Route::new.
RouteNew(path, method, func) == [path |-> path, method |-> method, func |-> func]

PathHello == <<"/", "h", "e", "l", "l", "o">>

PathHelloRust == <<"/", "h", "e", "l", "l", "o", "_", "r", "u", "s", "t">>

PathForbidden == <<"/", "f", "o", "r", "b", "i", "d", "d", "e", "n">>

\* main.rs ROUTES.
ROUTES ==
    <<RouteNew(PathHello, "GET", "hello_world"),
      RouteNew(PathHelloRust, "GET", "hello_rust"),
      RouteNew(PathForbidden, "GET", "forbidden")>>

\* The tables WebSrv::run is given in the model: ROUTES, a table in which two
\* routes share path and method and a third differs in the method only, and
\* the empty table.
RouteTables ==
    <<ROUTES,
      <<RouteNew(PathHello, "POST", "hello_rust"),
        RouteNew(PathHello, "GET", "forbidden"),
        RouteNew(PathHello, "GET", "hello_world")>>,
      <<>>>>

\* ------------------------------------------------------- handle_connection

\* What the peers of the model send before the single read, each with
\* whether stream.read succeeds.
ReqEmpty == <<>>

ReqHello ==
    <<"G", "E", "T", SP>> \o PathHello \o <<SP, "H", "T", "T", "P", "/", "1", ".", "1">>
    \o CRLF \o CRLF

ReqMissing ==
    <<"G", "E", "T", SP, "/", "n", "o", SP, "H", "T", "T", "P", "/", "1", ".", "1">>
    \o CRLF \o CRLF

ReqPostHello ==
    <<"P", "O", "S", "T", SP>> \o PathHello \o <<SP, "H", "T", "T", "P", "/", "1", ".", "1">>
    \o CRLF \o CRLF

ReqHelloRust ==
    <<"G", "E", "T", SP>> \o PathHelloRust \o <<SP, "H", "T", "T", "P", "/", "1">>
    \o CRLF \o CRLF

ReqTwoTokens == <<"G", "E", "T", SP>> \o PathHello \o CRLF \o CRLF

ReqBadMethod ==
    <<"F", "O", "O", SP>> \o PathHello \o <<SP, "H", "T", "T", "P", "/", "1", ".", "1">>
    \o CRLF \o CRLF

ReqBadHeader ==
    <<"G", "E", "T", SP>> \o PathHello \o <<SP, "H", "T", "T", "P", "/", "1">>
    \o CRLF \o <<"H", "o", "s", "t">> \o CRLF \o CRLF

ReqGoodHeader ==
    <<"G", "E", "T", SP>> \o PathHello \o <<SP, "H", "T", "T", "P", "/", "1">>
    \o CRLF \o <<"K", ":", SP, "v">> \o CRLF \o CRLF

ReqLongHeader ==
    <<"G", "E", "T", SP>> \o PathHello \o <<SP, "H", "T", "T", "P", "/", "1">>
    \o CRLF \o <<"K", ":", SP, "a", ":", SP, "b">> \o CRLF \o CRLF

Connection(data, readOk) == [data |-> data, readOk |-> readOk]

Connections ==
    <<Connection(ReqEmpty, TRUE),
      Connection(ReqHello, TRUE),
      Connection(ReqMissing, TRUE),
      Connection(ReqPostHello, TRUE),
      Connection(ReqHelloRust, TRUE),
      Connection(ReqTwoTokens, TRUE),
      Connection(ReqBadMethod, TRUE),
      Connection(ReqBadHeader, TRUE),
      Connection(ReqGoodHeader, TRUE),
      Connection(ReqLongHeader, TRUE),
      Connection(ReqHello, FALSE)>>

\* let mut buffer = [0; N]; stream.read(&mut buffer): the first bytes sent, at
\* most the capacity, the rest of the buffer staying zero; the whole buffer
\* is then taken as the request text.
Buffer(data) ==
    LET byte(i) == IF i <= Len(data) THEN data[i] ELSE NUL
    IN SeqOf(byte, BufCap)

\* A condition that compares the paths only.
RouteMatchesPath(route, request) == route.path = request.uri

\* The condition of the if in the loop over the routes.
RouteMatches(route, request) ==
    route.path = request.uri /\ request.method = route.method

\* The response text built for a matched route.
Render(status_code, response) ==
    <<"H", "T", "T", "P", "/", "1", ".", "1", SP>> \o StatusText(status_code) \o CRLF
    \o (IF Len(response) > 0
        THEN <<"C", "o", "n", "t", "e", "n", "t", "-", "L", "e", "n", "g", "t", "h", ":", SP>>
             \o ToDecimal(Len(response)) \o CRLF \o CRLF \o response
        ELSE <<>>)

\* A not-found response that carries the status of a success.
RenderNotFoundAsOk(result) ==
    <<"H", "T", "T", "P", "/", "1", ".", "1", SP, "2", "0", "0", SP, "O", "K">> \o CRLF
    \o <<"C", "o", "n", "t", "e", "n", "t", "-", "L", "e", "n", "g", "t", "h", ":", SP>>
    \o ToDecimal(Len(result)) \o CRLF \o CRLF \o result

\* The response text built when no route matched.
RenderNotFound(result) ==
    <<"H", "T", "T", "P", "/", "1", ".", "1", SP,
      "4", "0", "4", SP, "N", "o", "t", SP, "F", "o", "u", "n", "d">> \o CRLF
    \o <<"C", "o", "n", "t", "e", "n", "t", "-", "L", "e", "n", "g", "t", "h", ":", SP>>
    \o ToDecimal(Len(result)) \o CRLF \o CRLF \o result

\* How one call of handle_connection ends: by returning or by unwinding, what
\* from_str gave, the routes whose func it called, what that func returned,
\* the content read for the not-found response, the bytes it wrote to the
\* stream and the status text it logged.
Outcome(end, parsed, invoked, ret, file, written, logged) ==
    [end |-> end, parsed |-> parsed, invoked |-> invoked, ret |-> ret,
     file |-> file, written |-> written, logged |-> logged]

\* The tail of handle_connection after the loop: no route matched.
NotFound ==
    {IF r = Panic
     THEN Outcome("Panic", "Some", <<>>, None, None, <<>>, None)
     ELSE Outcome("Return", "Some", <<>>, None, r, RenderNotFound(r.val),
                  Some(StatusText("NotFound")))
     : r \in ReadTemplate}

\* The body of the if in the loop: call the route's func, write and return.
Respond(table, i, request) ==
    {IF r = Panic
     THEN Outcome("Panic", "Some", <<i>>, None, None, <<>>, None)
     ELSE Outcome("Return", "Some", <<i>>, Some(r), None, Render(r.status, r.body),
                  Some(StatusText(r.status)))
     : r \in CallFunc(table[i].func, request)}

\* for route in routes { if ... { ...; return; } } followed by the not-found
\* tail, from the i-th route on.
RECURSIVE Dispatch(_, _, _)
Dispatch(table, i, request) ==
    IF i > Len(table) THEN NotFound
    ELSE IF RouteMatches(table[i], request) THEN Respond(table, i, request)
    ELSE Dispatch(table, i + 1, request)

\* WebSrv::handle_connection: the set of ways one call can go.
HandleConnection(stream, table) ==
    IF ~stream.readOk
    THEN {Outcome("Panic", "Unread", <<>>, None, None, <<>>, None)}
    ELSE LET request == FromStr(Buffer(stream.data))
         IN IF request = Panic
            THEN {Outcome("Panic", "Panic", <<>>, None, None, <<>>, None)}
            ELSE IF request = None
            THEN {Outcome("Return", "None", <<>>, None, None, <<>>, None)}
            ELSE Dispatch(table, 1, request.val)

\* The closure of WebSrv::run over the c-th connection and a route table:
\* the ways its call of handle_connection can go.
JobOutcomes ==
    LET under(c) ==
            LET with(t) == HandleConnection(Connections[c], RouteTables[t])
            IN SeqOf(with, Len(RouteTables))
    IN SeqOf(under, Len(Connections))

\* --------------------------------------------------------------- ThreadPool

VARIABLES
    routes,           \* the &'static [Route] given to WebSrv::run
    size,             \* WebSrv.workers, the size given to ThreadPool::new
    poolState,        \* where the thread owning the pool is: new, run, drop
    wstate,           \* Worker id -> where its thread is in the loop
    wjob,             \* Worker id -> the job it is executing, 0 for none
    lock,             \* the Worker holding the receiver's Mutex, NoWorker for none
    queue,            \* the messages sent on the channel and not received
    jobs,             \* the closures given to execute, in submission order
    termSent,         \* iterations done of the first loop of drop
    joinIdx,          \* iterations done of the second loop of drop
    callerPanicking,  \* the thread owning the pool is unwinding from a panic
    queuedAtDrop      \* history: the jobs in the queue when drop was entered

vars == <<routes, size, poolState, wstate, wjob, lock, queue, jobs, termSent,
          joinIdx, callerPanicking, queuedAtDrop>>

NoWorker == -1

\* enum Message.
NewJob(job) == [type |-> "NewJob", job |-> job]

Terminate == [type |-> "Terminate"]

\* A constructor that accepts every size.
SizeUnchecked(n) == TRUE

\* assert!(size > 0).
SizeAsserted(n) == n > 0

\* The range written 0..=size: one Worker too many.
WorkerIdsInclusive(n) == 0 .. n

\* for i in 0..size: the ids of the Workers spawned.
WorkerIds(n) == 0 .. (n - 1)

\* The Workers of the pool.
Workers == DOMAIN wstate

\* The pool's size as given to ThreadPool::new (workers.len()).
PoolSize == Cardinality(Workers)

\* A Worker's thread has not finished: it has neither left the loop nor
\* unwound.
Alive(w) == wstate[w] \notin {"Terminated", "Panicked"}

\* A channel that is closed as soon as one Worker's thread has finished.
ReceiverNeedsAll == \A w \in Workers : Alive(w)

\* The Receiver lives in an Arc that only the Workers' closures hold once new
\* has returned, so the channel is connected while a Worker's thread runs.
ReceiverAlive == \E w \in Workers : Alive(w)

\* A send that puts the message at the head of the queue.
SendFront(q, message) == <<message>> \o q

\* mpsc::Sender::send on a connected channel.
Send(q, message) == Append(q, message)

\* A receive that hands out the newest message.
ReceivedNewest(q) == q[Len(q)]

\* mpsc::Receiver::recv on a non-empty channel: the message received and
\* the messages left.
Received(q) == Head(q)

\* A receive that leaves the message in the queue.
RemainingPeek(q) == q

Remaining(q) == Tail(q)

\* WebSrv::new(addr, workers) and the table given to run; no pool yet.
Init ==
    /\ routes \in {RouteTables[t] : t \in 1..Len(RouteTables)}
    /\ size \in 0..MaxWorkers
    /\ poolState = "NotCreated"
    /\ wstate = <<>>
    /\ wjob = <<>>
    /\ lock = NoWorker
    /\ queue = <<>>
    /\ jobs = <<>>
    /\ termSent = 0
    /\ joinIdx = 0
    /\ callerPanicking = FALSE
    /\ queuedAtDrop = {}

\* ThreadPool::new(self.workers), as called by WebSrv::run.
New ==
    /\ poolState = "NotCreated"
    /\ IF SizeAsserted(size)
       THEN /\ poolState' = "Running"
            /\ wstate' = [w \in WorkerIds(size) |-> "Idle"]
            /\ wjob' = [w \in WorkerIds(size) |-> 0]
            /\ UNCHANGED callerPanicking
       ELSE /\ poolState' = "NewPanicked"
            /\ callerPanicking' = TRUE
            /\ UNCHANGED <<wstate, wjob>>
    /\ UNCHANGED <<routes, size, lock, queue, jobs, termSent, joinIdx, queuedAtDrop>>

\* A closure as execute boxes it: the stream it owns and what has become of it.
Job(c, st) == [conn |-> c, st |-> st, runs |-> 0, by |-> NoWorker, out |-> None]

\* ThreadPool::execute with the closure of WebSrv::run over the c-th
\* connection: the send succeeds.
Execute(c) ==
    /\ poolState = "Running"
    /\ ~callerPanicking
    /\ Len(jobs) < MaxJobs
    /\ ReceiverAlive
    /\ jobs' = Append(jobs, Job(c, "queued"))
    /\ queue' = Send(queue, NewJob(Len(jobs) + 1))
    /\ UNCHANGED <<routes, size, poolState, wstate, wjob, lock, termSent, joinIdx,
                   callerPanicking, queuedAtDrop>>

\* ThreadPool::execute when the channel is disconnected: send returns Err,
\* unwrap panics and the closure is dropped with the error.
ExecutePanics(c) ==
    /\ poolState = "Running"
    /\ ~callerPanicking
    /\ Len(jobs) < MaxJobs
    /\ ~ReceiverAlive
    /\ jobs' = Append(jobs, Job(c, "rejected"))
    /\ callerPanicking' = TRUE
    /\ UNCHANGED <<routes, size, poolState, wstate, wjob, lock, queue, termSent,
                   joinIdx, queuedAtDrop>>

\* WebSrv::run: listener.incoming() yields an error and stream.unwrap() panics.
AcceptPanics ==
    /\ poolState = "Running"
    /\ ~callerPanicking
    /\ callerPanicking' = TRUE
    /\ UNCHANGED <<routes, size, poolState, wstate, wjob, lock, queue, jobs,
                   termSent, joinIdx, queuedAtDrop>>

\* The jobs of the NewJob messages in a queue.
QueuedJobs(q) == {q[i].job : i \in {k \in 1..Len(q) : q[k].type = "NewJob"}}

\* The pool goes out of scope, at the end of its owner's scope or while its
\* owner unwinds: drop is entered.
BeginDrop ==
    /\ poolState = "Running"
    /\ poolState' = "Sending"
    /\ queuedAtDrop' = QueuedJobs(queue)
    /\ UNCHANGED <<routes, size, wstate, wjob, lock, queue, jobs, termSent, joinIdx,
                   callerPanicking>>

\* A panic leaves drop: the process aborts when the thread was unwinding
\* already, and the panic unwinds out of drop otherwise.
DropPanicState == IF callerPanicking THEN "Aborted" ELSE "DropPanicked"

\* One iteration of the first loop of drop, the send succeeding; after the
\* last one the second loop is entered.
SendTerminate ==
    /\ poolState = "Sending"
    /\ termSent < PoolSize
    /\ ReceiverAlive
    /\ queue' = Send(queue, Terminate)
    /\ termSent' = termSent + 1
    /\ poolState' = IF termSent + 1 = PoolSize THEN "Joining" ELSE "Sending"
    /\ UNCHANGED <<routes, size, wstate, wjob, lock, jobs, joinIdx, callerPanicking,
                   queuedAtDrop>>

\* One iteration of the first loop of drop, send returning Err and unwrap
\* panicking.
SendTerminatePanics ==
    /\ poolState = "Sending"
    /\ termSent < PoolSize
    /\ ~ReceiverAlive
    /\ poolState' = DropPanicState
    /\ callerPanicking' = TRUE
    /\ UNCHANGED <<routes, size, wstate, wjob, lock, queue, jobs, termSent, joinIdx,
                   queuedAtDrop>>

\* A join that does not wait for the thread.
JoinableAlways(w) == TRUE

\* thread.join() returns once the thread has finished.
Joinable(w) == ~Alive(w)

\* thread.join() returns Err: the thread finished by panicking.
JoinErr(w) == wstate[w] = "Panicked"

\* One iteration of the second loop of drop, on a thread that left its loop;
\* after the last one drop returns.
Join ==
    /\ poolState = "Joining"
    /\ joinIdx < PoolSize
    /\ Joinable(joinIdx)
    /\ ~JoinErr(joinIdx)
    /\ joinIdx' = joinIdx + 1
    /\ poolState' = IF joinIdx + 1 = PoolSize THEN "Stopped" ELSE "Joining"
    /\ UNCHANGED <<routes, size, wstate, wjob, lock, queue, jobs, termSent,
                   callerPanicking, queuedAtDrop>>

\* One iteration of the second loop of drop, on a thread that panicked: join
\* returns Err and unwrap panics.
JoinPanics ==
    /\ poolState = "Joining"
    /\ joinIdx < PoolSize
    /\ Joinable(joinIdx)
    /\ JoinErr(joinIdx)
    /\ poolState' = DropPanicState
    /\ callerPanicking' = TRUE
    /\ UNCHANGED <<routes, size, wstate, wjob, lock, queue, jobs, termSent, joinIdx,
                   queuedAtDrop>>

\* ------------------------------------------------------------------- Worker

\* The place of the server's route table among RouteTables.
TableIndex == CHOOSE t \in 1..Len(RouteTables) : RouteTables[t] = routes

\* The process has not been aborted: its threads still run.
ProcessRuns == poolState # "Aborted"

\* receiver.lock().unwrap(): the Worker takes the Mutex.
Lock(w) ==
    /\ ProcessRuns
    /\ w \in Workers
    /\ wstate[w] = "Idle"
    /\ lock = NoWorker
    /\ lock' = w
    /\ wstate' = [wstate EXCEPT ![w] = "Receiving"]
    /\ UNCHANGED <<routes, size, poolState, wjob, queue, jobs, termSent, joinIdx,
                   callerPanicking, queuedAtDrop>>

\* A Terminate arm without its break: the Worker goes round the loop again.
TerminateContinues == "Idle"

\* Message::Terminate => break: the loop is left and the thread finishes.
TerminateBreaks == "Terminated"

\* A guard bound to a name that lives to the end of the loop body: the Worker
\* keeps the Mutex through the match.
GuardKept(w) == w

\* The holder of the Mutex once the let statement has ended: the MutexGuard is
\* a temporary of that statement and is dropped with it.
GuardDropped(w) == NoWorker

\* .recv().unwrap() returns a message and the guard is dropped at the end of
\* the let statement; the match then starts the job or breaks the loop.
Recv(w) ==
    /\ ProcessRuns
    /\ w \in Workers
    /\ wstate[w] = "Receiving"
    /\ queue # <<>>
    /\ LET message == Received(queue)
       IN /\ queue' = Remaining(queue)
          /\ lock' = GuardDropped(w)
          /\ IF message.type = "NewJob"
             THEN /\ wstate' = [wstate EXCEPT ![w] = "Executing"]
                  /\ wjob' = [wjob EXCEPT ![w] = message.job]
                  /\ jobs' = [jobs EXCEPT ![message.job].st = "running",
                                          ![message.job].runs = @ + 1,
                                          ![message.job].by = w]
             ELSE /\ wstate' = [wstate EXCEPT ![w] = TerminateBreaks]
                  /\ UNCHANGED <<wjob, jobs>>
    /\ UNCHANGED <<routes, size, poolState, termSent, joinIdx, callerPanicking,
                   queuedAtDrop>>

\* job() returns: the Worker goes round the loop.
JobReturns(w) ==
    /\ ProcessRuns
    /\ w \in Workers
    /\ wstate[w] = "Executing"
    /\ \E o \in JobOutcomes[jobs[wjob[w]].conn][TableIndex] :
          /\ o.end = "Return"
          /\ jobs' = [jobs EXCEPT ![wjob[w]].st = "done", ![wjob[w]].out = o]
    /\ wstate' = [wstate EXCEPT ![w] = "Idle"]
    /\ wjob' = [wjob EXCEPT ![w] = 0]
    /\ UNCHANGED <<routes, size, poolState, lock, queue, termSent, joinIdx,
                   callerPanicking, queuedAtDrop>>

\* A panic that takes the whole process down: every Worker's thread ends.
UnwoundAll(ws, w) == [v \in DOMAIN ws |-> "Panicked"]

\* A panic in job() unwinds the closure given to thread::spawn: the thread of
\* the Worker that ran the job ends, the other threads are not touched.
Unwound(ws, w) == [ws EXCEPT ![w] = "Panicked"]

\* job() panics: the panic unwinds through the loop and ends the thread.
JobPanics(w) ==
    /\ ProcessRuns
    /\ w \in Workers
    /\ wstate[w] = "Executing"
    /\ \E o \in JobOutcomes[jobs[wjob[w]].conn][TableIndex] :
          /\ o.end = "Panic"
          /\ jobs' = [jobs EXCEPT ![wjob[w]].st = "panicked", ![wjob[w]].out = o]
    /\ wstate' = Unwound(wstate, w)
    /\ wjob' = [wjob EXCEPT ![w] = 0]
    /\ UNCHANGED <<routes, size, poolState, lock, queue, termSent, joinIdx,
                   callerPanicking, queuedAtDrop>>

\* The steps of Worker w's thread.
WorkerStep(w) == Lock(w) \/ Recv(w) \/ JobReturns(w) \/ JobPanics(w)

\* The steps of drop.
DropStep == SendTerminate \/ SendTerminatePanics \/ Join \/ JoinPanics

\* The connections the accept loop sees under Spec: a well-formed request
\* for a route of ROUTES and a request line of two tokens.
PoolConnections ==
    {c \in 1..Len(Connections) :
        Connections[c].readOk /\ Connections[c].data \in {ReqHello, ReqTwoTokens}}

\* main.rs: WebSrv::run(ROUTES).
InitMain == Init /\ routes = ROUTES

\* The pool under every size, fed with the connections of PoolConnections.
Next ==
    \/ New
    \/ \E c \in PoolConnections : Execute(c)
    \/ \E c \in PoolConnections : ExecutePanics(c)
    \/ AcceptPanics
    \/ BeginDrop
    \/ SendTerminate
    \/ SendTerminatePanics
    \/ Join
    \/ JoinPanics
    \/ \E w \in WorkerIds(MaxWorkers) : Lock(w)
    \/ \E w \in WorkerIds(MaxWorkers) : Recv(w)
    \/ \E w \in WorkerIds(MaxWorkers) : JobReturns(w)
    \/ \E w \in WorkerIds(MaxWorkers) : JobPanics(w)

Spec == InitMain /\ [][Next]_vars

\* The scheduler runs every thread that can take a step: each Worker's thread
\* and the thread executing drop.
FairSpec ==
    /\ Spec
    /\ \A w \in WorkerIds(MaxWorkers) : WF_vars(WorkerStep(w))
    /\ WF_vars(DropStep)

\* WebSrv::new(addr, 1): a server of one Worker.
InitServer == Init /\ size = 1

\* WebSrv::run never leaves its accept loop by returning: its pool goes out
\* of scope only while run unwinds from a panic.
Unwind == callerPanicking /\ BeginDrop

\* The server of one Worker, under every route table and fed with every
\* connection of Connections.
ServerNext ==
    \/ New
    \/ \E c \in 1..Len(Connections) : Execute(c)
    \/ \E c \in 1..Len(Connections) : ExecutePanics(c)
    \/ AcceptPanics
    \/ Unwind
    \/ SendTerminate
    \/ SendTerminatePanics
    \/ Join
    \/ JoinPanics
    \/ Lock(0)
    \/ Recv(0)
    \/ JobReturns(0)
    \/ JobPanics(0)

ServerSpec == InitServer /\ [][ServerNext]_vars

\* ------------------------------------------------------------------ claims

JobIds == DOMAIN jobs

\* The job has been taken off the queue by a Worker.
Dequeued(j) == jobs[j].st \in {"running", "done", "panicked"}

\* The jobs some Worker is executing.
Executing == {j \in JobIds : jobs[j].st = "running"}

\* drop has been entered.
ShutdownBegun ==
    poolState \in {"Sending", "Joining", "Stopped", "DropPanicked", "Aborted"}

\* C1: under fair scheduling every job submitted through execute is
\* eventually executed by some Worker: no job stays in the queue forever.
C1_EveryJobEventuallyExecuted ==
    \A j \in 1..MaxJobs :
        (j \in JobIds /\ jobs[j].st = "queued") ~> (j \in JobIds /\ Dequeued(j))

\* C2: every job is executed at most once and by at most one Worker: no job
\* is dequeued twice, no two Workers execute the same job, and a job that has
\* been dequeued is not in the queue any more.
C2_ExecutedAtMostOnce ==
    /\ \A j \in JobIds : jobs[j].runs <= 1
    /\ \A j \in JobIds : Dequeued(j) => jobs[j].runs = 1 /\ j \notin QueuedJobs(queue)
    /\ \A v, w \in Workers : (v # w /\ wjob[v] # 0) => wjob[v] # wjob[w]
    /\ \A w \in Workers : wjob[w] # 0 => jobs[wjob[w]].by = w

\* Two jobs have been executed to the end, each once, by different Workers.
C2_Witness ==
    \E i, j \in JobIds :
        /\ jobs[i].st = "done" /\ jobs[j].st = "done"
        /\ jobs[i].runs = 1 /\ jobs[j].runs = 1
        /\ jobs[i].by # jobs[j].by

\* C3: in a pool created with size N at most N jobs are being executed at any
\* moment.
C3_AtMostSizeExecuting == Cardinality(Executing) <= size

\* A pool of two Workers executes two jobs at the same moment.
C3_Witness == size = 2 /\ Cardinality(Executing) = 2

\* C4: when drop returns every Worker has left its loop and has been joined,
\* and no job that was dequeued is still being executed.
C4_DropReturnsAfterJoin ==
    poolState = "Stopped" =>
        /\ \A w \in Workers : wstate[w] = "Terminated"
        /\ joinIdx = size
        /\ Executing = {}

\* drop has returned on a pool of two Workers that had dequeued a job before
\* drop was entered.
C4_Witness ==
    /\ poolState = "Stopped"
    /\ size = 2
    /\ \E j \in JobIds : jobs[j].st = "done" /\ j \notin queuedAtDrop

\* C5, as claimed: a job still in the queue when drop is entered is never
\* executed.
C5_QueuedAtShutdownNeverExecuted ==
    \A j \in queuedAtDrop : jobs[j].st = "queued"

\* C5, amended: the jobs in the queue when drop is entered are not abandoned;
\* the Terminate messages are queued behind them, so every one of them has
\* been dequeued by a Worker before any Worker receives Terminate, and when
\* drop returns every one of them has been executed to the end.
C5_QueuedAtShutdownExecuted ==
    /\ (\E w \in Workers : wstate[w] = "Terminated") =>
           \A j \in queuedAtDrop : Dequeued(j)
    /\ poolState = "Stopped" => \A j \in queuedAtDrop : jobs[j].st = "done"

\* drop has returned and jobs were in the queue when it was entered.
C5_Witness == poolState = "Stopped" /\ queuedAtDrop # {}

\* C6: once drop has been entered, exactly N Terminate messages are sent,
\* each Worker dequeues one of them, and so every Worker eventually leaves
\* its loop.
C6_EveryWorkerTerminates ==
    ShutdownBegun ~> (termSent = size /\ \A w \in Workers : wstate[w] = "Terminated")

\* C7: while the pool is Running (created, drop not entered) exactly N Worker
\* threads are alive.
C7_ExactlySizeAlive ==
    poolState = "Running" => Cardinality({w \in Workers : Alive(w)}) = size

\* The line holds the separator of a header's key and value.
HasSeparator(line) ==
    \E i \in 1..(Len(line) - 1) : line[i] = ":" /\ line[i + 1] = SP

\* The text is one of the malformed inputs of C8: nothing was sent, or its
\* request line has fewer than three tokens or an unrecognized method, or a
\* line before the first empty line lacks the ": " separator.
Malformed(data) ==
    LET lines == Lines(Buffer(data))
        tokens == SplitWhitespace(lines[1])
    IN \/ data = <<>>
       \/ Len(tokens) < 3
       \/ MethodFromStr(NextItem(tokens, 1)) = None
       \/ \E i \in 2..Len(lines) :
             /\ \A k \in 2..i : lines[k] # <<>>
             /\ ~HasSeparator(lines[i])

\* The connections whose read succeeds and yields a malformed input.
MalformedConnections ==
    {c \in 1..Len(Connections) :
        Connections[c].readOk /\ Malformed(Connections[c].data)}

\* C8: on a malformed input from_str yields no Request, handle_connection
\* writes nothing, and the Worker does not crash: the job returns and the
\* Worker is back in its loop.
C8_MalformedIsRecovered ==
    \A j \in JobIds :
        jobs[j].conn \in MalformedConnections =>
            /\ jobs[j].st # "panicked"
            /\ jobs[j].st = "done" =>
                  /\ jobs[j].out.parsed = "None"
                  /\ jobs[j].out.written = <<>>

\* What from_str makes of the text read from each connection.
Parsed ==
    LET of(c) == FromStr(Buffer(Connections[c].data))
    IN SeqOf(of, Len(Connections))

\* The Request that the text of job j's connection holds.
RequestOf(j) == Parsed[jobs[j].conn].val

\* The positions in the table of the routes with the request's uri and method.
MatchingRoutes(request) ==
    {i \in 1..Len(routes) :
        routes[i].path = request.uri /\ routes[i].method = request.method}

\* Job j has run handle_connection on a text that from_str made a Request of.
Dispatched(j) == Dequeued(j) /\ jobs[j].st # "running" /\ jobs[j].out.parsed = "Some"

\* The bytes written up to their first line terminator.
FirstLine(written) ==
    LET ends == {i \in 1..Len(written) : written[i] = LF}
    IN IF ends = {} THEN written
       ELSE StripCR(SubSeq(written, 1, Nth(ends, 1) - 1))

\* The first line of the bytes written, split at white space.
StatusLine(written) == SplitWhitespace(FirstLine(written))

\* The bytes written after the first empty line: the body of the response.
ResponseBody(written) ==
    LET seps == {i \in 1..(Len(written) - 3) :
                    /\ written[i] = CR /\ written[i + 1] = LF
                    /\ written[i + 2] = CR /\ written[i + 3] = LF}
    IN IF seps = {} THEN <<>>
       ELSE SubSeq(written, Nth(seps, 1) + 4, Len(written))

\* C9: for a parsed request that some route matches, exactly one handler is
\* invoked, that of the first route in table order with the request's uri and
\* method, and the status line written carries the StatusCode that handler
\* returned.
C9_FirstMatchDispatched ==
    \A j \in JobIds :
        (Dispatched(j) /\ MatchingRoutes(RequestOf(j)) # {}) =>
            LET first == CHOOSE i \in MatchingRoutes(RequestOf(j)) :
                            \A k \in MatchingRoutes(RequestOf(j)) : i <= k
                out == jobs[j].out
                status == StatusLine(out.written)
            IN /\ out.invoked = <<first>>
               /\ out.end = "Return" =>
                     /\ out.ret # None
                     /\ Len(status) >= 2
                     /\ status[2] = ToDecimal(StatusNumber(out.ret.val.status))
                     /\ FirstLine(out.written) =
                            <<"H", "T", "T", "P", "/", "1", ".", "1", SP>>
                            \o StatusText(out.ret.val.status)

\* A request was answered by the second route of a table whose first route
\* has its path but another method and whose third route has its path and
\* method too.
C9_Witness ==
    \E j \in JobIds :
        /\ Dispatched(j)
        /\ MatchingRoutes(RequestOf(j)) = {2, 3}
        /\ routes[1].path = RequestOf(j).uri
        /\ jobs[j].out.end = "Return"
        /\ jobs[j].out.invoked = <<2>>

\* C10: for a parsed request that no route matches, no handler is invoked and
\* the response written is 404 Not Found with the not-found content as body.
C10_NoMatchIsNotFound ==
    \A j \in JobIds :
        (Dispatched(j) /\ MatchingRoutes(RequestOf(j)) = {}) =>
            LET out == jobs[j].out
            IN /\ out.invoked = <<>>
               /\ out.ret = None
               /\ out.end = "Return" =>
                     /\ out.file # None
                     /\ StatusLine(out.written) =
                            <<<<"H", "T", "T", "P", "/", "1", ".", "1">>,
                              <<"4", "0", "4">>, <<"N", "o", "t">>,
                              <<"F", "o", "u", "n", "d">>>>
                     /\ ResponseBody(out.written) = out.file.val

\* A request whose path is in a non-empty table under another method only was
\* answered with the not-found content.
C10_Witness ==
    \E j \in JobIds :
        /\ Dispatched(j)
        /\ MatchingRoutes(RequestOf(j)) = {}
        /\ \E i \in 1..Len(routes) : routes[i].path = RequestOf(j).uri
        /\ jobs[j].out.end = "Return"
        /\ Len(jobs[j].out.file.val) > 0

\* The body a call of handle_connection that wrote a response had to send:
\* what the route's func returned, or the not-found content.
BodyOf(out) == IF out.ret # None THEN out.ret.val.body ELSE out.file.val

\* Job j has written a response.
Responded(j) ==
    jobs[j].st = "done" /\ jobs[j].out.parsed = "Some" /\ jobs[j].out.end = "Return"

\* The framing law: an empty body gives exactly one CRLF-terminated line, a
\* body of L > 0 bytes gives the status line, Content-Length: L, an empty line
\* and the L bytes.
Framed(written, body) ==
    IF Len(body) = 0
    THEN written = FirstLine(written) \o CRLF
    ELSE written =
            FirstLine(written) \o CRLF
            \o <<"C", "o", "n", "t", "e", "n", "t", "-", "L", "e", "n", "g", "t", "h", ":", SP>>
            \o ToDecimal(Len(body)) \o CRLF \o CRLF \o body

\* C11: every response written, for a matched route and for no match alike,
\* obeys the framing law.
C11_FramingLaw ==
    \A j \in JobIds : Responded(j) => Framed(jobs[j].out.written, BodyOf(jobs[j].out))

\* The thread owning the pool is in the accept loop and takes one more
\* connection.
Submitting == poolState = "Running" /\ ~callerPanicking /\ Len(jobs) < MaxJobs

\* C12: execute never blocks on the Workers: whenever the pool is Running a
\* submission is enabled and appends to the queue, whatever the Workers do.
C12_SubmitAlwaysEnabled ==
    Submitting => \A c \in PoolConnections : ENABLED Execute(c)

\* C13: with workers = 0 the server fails in ThreadPool::new: no Worker is
\* ever spawned, no connection is accepted and no job is submitted.
C13_ZeroWorkersFatal ==
    size = 0 =>
        /\ poolState \in {"NotCreated", "NewPanicked"}
        /\ Workers = {}
        /\ jobs = <<>>
        /\ queue = <<>>

\* ThreadPool::new(0) has panicked.
C13_Witness == size = 0 /\ poolState = "NewPanicked" /\ callerPanicking

\* The Workers inside receiver.lock()...recv(): holding the Mutex.
Receiving == {w \in Workers : wstate[w] = "Receiving"}

\* C14: at most one Worker at a time holds the receive lock and dequeues; no
\* Worker holds it while executing a job, so a Worker executing a job never
\* keeps another from taking the lock and dequeuing.
C14_LockOnlyWhileDequeuing ==
    /\ Cardinality(Receiving) <= 1
    /\ \A w \in Workers : (lock = w) <=> (w \in Receiving)
    /\ \A w \in Workers : wstate[w] = "Executing" => lock # w
    /\ \A v, w \in Workers :
          (ProcessRuns /\ wstate[w] = "Executing" /\ wstate[v] = "Idle" /\ Receiving = {})
              => ENABLED Lock(v)

\* One Worker executes a job while another holds the lock and a message is
\* in the queue for it.
C14_Witness ==
    \E v, w \in Workers :
        /\ wstate[w] = "Executing"
        /\ wstate[v] = "Receiving"
        /\ lock = v
        /\ queue # <<>>

\* The steps Worker w may take by C15: it starts a job only from waiting on
\* the queue, with a NewJob dequeued; it leaves a job only to wait again or
\* by the death of its thread; it becomes Terminated only from waiting on the
\* queue, by dequeuing a Terminate, and then it does; and once Terminated it
\* stays so and runs nothing.
WorkerFollowsMachine(w) ==
    /\ wstate[w] = "Terminated" => (wstate'[w] = "Terminated" /\ wjob'[w] = 0)
    /\ (wstate[w] # "Terminated" /\ wstate'[w] = "Terminated") =>
          /\ wstate[w] = "Receiving"
          /\ queue # <<>>
          /\ Head(queue) = Terminate
          /\ queue' = Tail(queue)
    /\ (wstate[w] = "Receiving" /\ wstate'[w] # "Receiving"
            /\ queue # <<>> /\ Head(queue) = Terminate) =>
          wstate'[w] = "Terminated"
    /\ (wstate[w] # "Executing" /\ wstate'[w] = "Executing") =>
          /\ wstate[w] = "Receiving"
          /\ queue # <<>>
          /\ Head(queue).type = "NewJob"
    /\ wstate[w] = "Executing" => wstate'[w] \in {"Executing", "Idle", "Panicked"}
    /\ wstate[w] = "Idle" => wstate'[w] \in {"Idle", "Receiving"}

\* C15: each Worker follows Idle -> Executing -> Idle (repeated) ->
\* Terminated: Terminated is entered only from waiting on the queue, on
\* dequeuing Terminate, and a Terminated Worker never dequeues or executes
\* anything afterwards.
C15_WorkerStateMachine == [][\A w \in Workers : WorkerFollowsMachine(w)]_vars

\* A Worker that executed a job to the end is Terminated.
C15_Witness ==
    \E w \in Workers : \E j \in JobIds :
        wstate[w] = "Terminated" /\ jobs[j].by = w /\ jobs[j].st = "done"

\* The jobs that failed: job() panicked.
Failed == {j \in JobIds : jobs[j].st = "panicked"}

\* The Workers whose thread ended by a panic.
Dead == {w \in Workers : wstate[w] = "Panicked"}

\* C16: a panic inside a job ends exactly the Worker executing it: the dead
\* Workers are those that ran the failed jobs, one per failure and never
\* replaced; while the pool is Running exactly N - f Workers are alive after
\* f failures, and a survivor waiting on the queue still dequeues.
C16_PanicKillsOneWorker ==
    /\ Dead = {jobs[j].by : j \in Failed}
    /\ Cardinality(Dead) = Cardinality(Failed)
    /\ Workers # {} => Workers = WorkerIds(size)
    /\ poolState = "Running" =>
          Cardinality({w \in Workers : Alive(w)}) = size - Cardinality(Failed)
    /\ \A v \in Workers :
          (ProcessRuns /\ Dead # {} /\ wstate[v] = "Receiving" /\ queue # <<>>)
              => ENABLED Recv(v)

\* In a pool of two Workers one has died of a failed job and the other is
\* about to dequeue a job submitted after that one.
C16_Witness ==
    /\ size = 2
    /\ poolState = "Running"
    /\ Cardinality(Failed) = 1
    /\ \E v \in Workers :
          wstate[v] = "Receiving" /\ queue # <<>> /\ Head(queue).type = "NewJob"

\* C17: execute fails only when the channel is closed, which is only when
\* every Worker has exited: while a Worker is alive a submission succeeds, a
\* submission can fail only with no Worker alive, and a job was rejected only
\* with no Worker alive.
C17_SubmitFailsOnlyWhenClosed ==
    /\ (Submitting /\ \E w \in Workers : Alive(w)) =>
          \A c \in PoolConnections : ENABLED Execute(c) /\ ~ENABLED ExecutePanics(c)
    /\ \A c \in PoolConnections :
          ENABLED ExecutePanics(c) => \A w \in Workers : ~Alive(w)
    /\ \A j \in JobIds : jobs[j].st = "rejected" => \A w \in Workers : ~Alive(w)

\* The accept loop submits to a pool of two Workers of which one has died.
C17_Witness ==
    /\ size = 2
    /\ Submitting
    /\ \E v, w \in Workers : wstate[v] = "Panicked" /\ Alive(w)

\* The lines of a text between its request line and its first empty line.
HeaderLinesOf(text) ==
    LET lines == Lines(text)
        empty == {i \in 2..Len(lines) : lines[i] = <<>>}
        last == IF empty = {} THEN Len(lines) ELSE Nth(empty, 1) - 1
    IN SubSeq(lines, 2, last)

\* The header lines of the text read from each connection.
HeaderLines ==
    LET of(c) == HeaderLinesOf(Buffer(Connections[c].data))
    IN SeqOf(of, Len(Connections))

\* C18: from_str returns a Request only if every header line splits on ": "
\* into exactly a key and a value, and then its headers are those lines whole:
\* no Request with a partial or truncated header is returned.
C18_HeadersWholeOrFail ==
    \A j \in JobIds :
        Dispatched(j) =>
            LET given == HeaderLines[jobs[j].conn]
                headers == RequestOf(j).headers
            IN /\ \A k \in 1..Len(given) : Len(SplitColonSpace(given[k])) = 2
               /\ Len(headers) = Len(given)
               /\ \A k \in 1..Len(given) :
                     headers[k].key \o <<":", SP>> \o headers[k].value = given[k]

\* C19: drop always runs to completion, even after Workers were ended by
\* failed jobs: no send of Terminate and no join fails, so drop never leaves
\* by a panic.
C19_DropNeverPanics == poolState \notin {"DropPanicked", "Aborted"}

\* C20: the queue is consumed first in, first out by the Workers together:
\* a job is dequeued only after every job submitted before it, the messages
\* in the queue are in the order they were sent, and no Worker has dequeued a
\* Terminate while a job is still in the queue.
C20_QueueIsFifo ==
    /\ \A i, j \in JobIds : (i < j /\ Dequeued(j)) => Dequeued(i)
    /\ \A k, l \in 1..Len(queue) :
          (k < l /\ queue[l].type = "NewJob") =>
              (queue[k].type = "NewJob" /\ queue[k].job < queue[l].job)
    /\ (\E w \in Workers : wstate[w] = "Terminated") => QueuedJobs(queue) = {}

\* Two jobs were dequeued by different Workers, the second submitted while
\* the first was in the queue, and a Worker has then dequeued a Terminate.
C20_Witness ==
    /\ \E i, j \in JobIds : i < j /\ Dequeued(i) /\ Dequeued(j) /\ jobs[i].by # jobs[j].by
    /\ queuedAtDrop # {}
    /\ \E w \in Workers : wstate[w] = "Terminated"

====
